---- MODULE Spec2Model ----
(***************************************************************************)
(* Model of calscape_geophytes.py: the Calscape spreadsheet and the        *)
(* iNaturalist taxa file are read into lookup tables, the geophyte species *)
(* are selected by the constructor of CalscapeGeophytes, grouped into the  *)
(* family tree, summarised and optionally written as CSV.                  *)
(*                                                                         *)
(* A Python str is modelled as a tuple of one-character strings, so that   *)
(* split(" "), the "'" test and the lexical order of sorted() are computed *)
(* on the characters as Python computes them.  Cell values that are only   *)
(* compared for equality (headers, common names, URLs, file paths) are     *)
(* modelled as atoms.                                                      *)
(***************************************************************************)
EXTENDS Integers, Sequences, FiniteSets, TLC

\* ------------------------------------------------------------------ bounds
\* Data rows below the header row of the spreadsheet.
MaxRows == 3
\* Records of the taxa CSV file.
MaxTaxa == 3

\* ------------------------------------------------------- Python str values
Upper == <<"A","B","C","D","E","F","G","H","I","J","K","L","M",
           "N","O","P","Q","R","S","T","U","V","W","X","Y","Z">>
Lower == <<"a","b","c","d","e","f","g","h","i","j","k","l","m",
           "n","o","p","q","r","s","t","u","v","w","x","y","z">>
Chars == {" ", "'"} \cup {Upper[i] : i \in 1..26} \cup {Lower[i] : i \in 1..26}

\* Unicode code point of a character, the key of Python's str comparison.
ord[c \in Chars] ==
    IF c = " " THEN 32
    ELSE IF c = "'" THEN 39
    ELSE IF \E i \in 1..26 : Upper[i] = c
         THEN 64 + (CHOOSE i \in 1..26 : Upper[i] = c)
         ELSE 96 + (CHOOSE i \in 1..26 : Lower[i] = c)

\* a < b on Python strings: the first differing code point decides, a proper
\* prefix is smaller.
StrLess(a, b) ==
    LET n == IF Len(a) < Len(b) THEN Len(a) ELSE Len(b)
        diff == {i \in 1..n : a[i] # b[i]}
    IN  IF diff = {} THEN Len(a) < Len(b)
        ELSE LET i == CHOOSE j \in diff : \A k \in diff : j <= k
             IN  ord[a[i]] < ord[b[i]]

\* sorted(S) of a collection of distinct strings.
RECURSIVE sorted(_)
sorted(S) ==
    IF S = {} THEN <<>>
    ELSE LET m == CHOOSE x \in S : \A y \in S \ {x} : StrLess(x, y)
         IN  <<m>> \o sorted(S \ {m})

\* x.split(" ")[0]
FirstToken(x) ==
    LET sp == {i \in 1..Len(x) : x[i] = " "}
    IN  IF sp = {} THEN x
        ELSE SubSeq(x, 1, (CHOOSE i \in sp : \A k \in sp : i <= k) - 1)

\* "'" in x
HasQuote(x) == \E i \in 1..Len(x) : x[i] = "'"

\* ------------------------------------------------------ program constants
Androstephium == <<"A","n","d","r","o","s","t","e","p","h","i","u","m">>
Bessera == <<"B","e","s","s","e","r","a">>
Bloomeria == <<"B","l","o","o","m","e","r","i","a">>
Brodiaea == <<"B","r","o","d","i","a","e","a">>
Dandya == <<"D","a","n","d","y","a">>
Dichelostemma == <<"D","i","c","h","e","l","o","s","t","e","m","m","a">>
Milla == <<"M","i","l","l","a">>
Muilla == <<"M","u","i","l","l","a">>
Petronymphe == <<"P","e","t","r","o","n","y","m","p","h","e">>
Triteleia == <<"T","r","i","t","e","l","e","i","a">>
Triteleiopsis == <<"T","r","i","t","e","l","e","i","o","p","s","i","s">>
Camassia == <<"C","a","m","a","s","s","i","a">>
Chlorogalum == <<"C","h","l","o","r","o","g","a","l","u","m">>
Hesperocallis == <<"H","e","s","p","e","r","o","c","a","l","l","i","s">>
Leucocrinum == <<"L","e","u","c","o","c","r","i","n","u","m">>
Allium == <<"A","l","l","i","u","m">>
Liliaceae == <<"L","i","l","i","a","c","e","a","e">>
Iridaceae == <<"I","r","i","d","a","c","e","a","e">>
Tecophilaeaceae == <<"T","e","c","o","p","h","i","l","a","e","a","c","e","a","e">>

BRODIAE_SUBFAMILY_GENUSES ==
    <<Androstephium, Bessera, Bloomeria, Brodiaea, Dandya, Dichelostemma,
      Milla, Muilla, Petronymphe, Triteleia, Triteleiopsis>>

AGAVE_SUBFAMILY_GEOPHYTE_GENUSES ==
    <<Camassia, Chlorogalum, Hesperocallis, Leucocrinum>>

\* Default start_row of get_column: the row of the header cells.
HeaderRow == 6

\* The statements of CalscapeGeophytes.__init__ that fill self.geophytes, in
\* source order; an add_genus statement lists the genera its loop visits.
Constructor ==
    << [op |-> "add_family", names |-> <<Liliaceae>>],
       [op |-> "add_genus",  names |-> BRODIAE_SUBFAMILY_GENUSES],
       [op |-> "add_genus",  names |-> <<Allium>>],
       [op |-> "add_family", names |-> <<Iridaceae>>],
       [op |-> "add_genus",  names |-> AGAVE_SUBFAMILY_GEOPHYTE_GENUSES],
       [op |-> "add_family", names |-> <<Tecophilaeaceae>>] >>

\* ------------------------------------------------------------------ inputs
Asparagaceae == <<"A","s","p","a","r","a","g","a","c","e","a","e">>
Eremiaphilidae == <<"E","r","e","m","i","a","p","h","i","l","i","d","a","e">>
Lilium == <<"L","i","l","i","u","m">>
Iris == <<"I","r","i","s">>
Brodiaea_elegans == <<"B","r","o","d","i","a","e","a"," ","e","l","e","g","a","n","s">>
Lilium_pardalinum == <<"L","i","l","i","u","m"," ","p","a","r","d","a","l","i","n","u","m">>
Iris_douglasiana == <<"I","r","i","s"," ","d","o","u","g","l","a","s","i","a","n","a">>
Iris_Canyon_Snow == <<"I","r","i","s"," ","'","C","a","n","y","o","n"," ","S","n","o","w","'">>
Quercus_agrifolia == <<"Q","u","e","r","c","u","s"," ","a","g","r","i","f","o","l","i","a">>

\* Data rows a Calscape export may hold: columns A, B and AW of one row.  The
\* last row repeats a botanical name with another common name and URL.
RowPool ==
    { [A |-> Brodiaea_elegans,  B |-> "Harvest Brodiaea",  AW |-> "url/brodiaea-elegans"],
      [A |-> Lilium_pardalinum, B |-> "Leopard Lily",      AW |-> "url/lilium-pardalinum"],
      [A |-> Iris_douglasiana,  B |-> "Douglas Iris",      AW |-> "url/iris-douglasiana"],
      [A |-> Iris_Canyon_Snow,  B |-> "Canyon Snow Iris",  AW |-> "url/iris-canyon-snow"],
      [A |-> Quercus_agrifolia, B |-> "Coast Live Oak",    AW |-> "url/quercus-agrifolia"],
      [A |-> Iris_douglasiana,  B |-> "Mountain Iris",     AW |-> "url/iris-douglasiana-2"] }

\* Header cells A6, B6 and AW6 an export may hold.
HeaderPool ==
    [A : {"Botanical Name", "Scientific Name"},
     B : {"Common Name", "common name"},
     AW : {"Plant Url", "Plant URL"}]

\* Records the taxa CSV may hold: a genus of each whole-included family, a
\* genus listed under two families, an animal genus homonymous with a plant
\* genus, and a record of another rank.
TaxaPool ==
    { [kingdom |-> "Plantae",  taxonRank |-> "genus",   family |-> Liliaceae,      scientificName |-> Lilium],
      [kingdom |-> "Plantae",  taxonRank |-> "genus",   family |-> Iridaceae,      scientificName |-> Iris],
      [kingdom |-> "Plantae",  taxonRank |-> "genus",   family |-> Asparagaceae,   scientificName |-> Brodiaea],
      [kingdom |-> "Plantae",  taxonRank |-> "genus",   family |-> Liliaceae,      scientificName |-> Brodiaea],
      [kingdom |-> "Animalia", taxonRank |-> "genus",   family |-> Eremiaphilidae, scientificName |-> Iris],
      [kingdom |-> "Plantae",  taxonRank |-> "species", family |-> Liliaceae,      scientificName |-> Lilium_pardalinum] }

SeqsUpTo(S, n) == UNION {[1..k -> S] : k \in 0..n}

\* ------------------------------------------------------------------- state
VARIABLES
    pc,                      \* position of the run in __main__
    args,                    \* parsed command line
    workbook,                \* <<sheet>> while CalscapePlants.__init__ holds it
    genus_to_species,        \* CalscapePlants.genus_to_species
    species_to_url,          \* CalscapePlants.species_to_url
    species_to_common_name,  \* CalscapePlants.species_to_common_name
    family_to_genus,         \* InatPlantTaxa.family_to_genus
    genus_to_family,         \* InatPlantTaxa.genus_to_family
    rows_read,               \* records consumed from the open taxa file
    geophytes,               \* CalscapeGeophytes.geophytes
    applied,                 \* constructor statements that have completed
    call,                    \* the add_family statement being executed, or 0
    in_calscape,             \* genera its loop has still to visit
    family_tree,             \* CalscapeGeophytes.family_tree
    bound,                   \* names bound in __main__
    stdout,                  \* what print_summary printed
    files,                   \* files opened for writing, with their contents
    error                    \* <<exception>> once one has propagated

vars == <<pc, args, workbook, genus_to_species, species_to_url,
          species_to_common_name, family_to_genus, genus_to_family, rows_read,
          geophytes, applied, call, in_calscape, family_tree, bound, stdout,
          files, error>>

plants_vars == <<genus_to_species, species_to_url, species_to_common_name>>
taxa_vars == <<family_to_genus, genus_to_family, rows_read>>
selector_vars == <<geophytes, applied, call, in_calscape, family_tree>>
output_vars == <<stdout, files>>

\* ------------------------------------------------------------ dict helpers
EmptyDict == <<>>

\* d[k] = v
Put(d, k, v) == [x \in DOMAIN d \cup {k} |-> IF x = k THEN v ELSE d[x]]

\* d[k].add(e) on a defaultdict(set)
AddTo(d, k, e) == Put(d, k, (IF k \in DOMAIN d THEN d[k] ELSE {}) \cup {e})

\* set(d.get(k, ()))
GetSet(d, k) == IF k \in DOMAIN d THEN d[k] ELSE {}

\* ------------------------------------------------- Tabular Source Reader
\* The header checks of CalscapePlants.__init__, in the order it makes them.
HeaderChecks ==
    << [column |-> "A",  expected_name |-> "Botanical Name"],
       [column |-> "B",  expected_name |-> "Common Name"],
       [column |-> "AW", expected_name |-> "Plant Url"] >>

\* Mutant of HeaderMatches: the assert is not evaluated.
HeaderMatchesUnchecked(first, expected_name) == TRUE

\* The condition of the assert of get_column.
HeaderMatches(first, expected_name) == first = expected_name

\* The checks of HeaderChecks that fail on the sheet.
Mismatches(sheet) ==
    {i \in 1..Len(HeaderChecks) :
        ~HeaderMatches(sheet.header[HeaderChecks[i].column],
                       HeaderChecks[i].expected_name)}

\* The AssertionError get_column raises for a header check, with the
\* fields its message shows.
HeaderError(sheet, check) ==
    [kind |-> "AssertionError",
     cell |-> <<check.column, HeaderRow>>,
     expected |-> check.expected_name,
     got |-> sheet.header[check.column]]

\* What get_column returns: the cells of the column from the row after the
\* header row to sheet.max_row.
get_column(sheet, column) ==
    [i \in 1..Len(sheet.rows) |-> sheet.rows[i][column]]

\* The loop filling genus_to_species, over the first n species.
RECURSIVE GenusToSpecies(_, _)
GenusToSpecies(species, n) ==
    IF n = 0 THEN EmptyDict
    ELSE AddTo(GenusToSpecies(species, n - 1), FirstToken(species[n]), species[n])

\* Mutant of DictZip: the table is keyed by genus instead of species.
DictZipByGenus(keys, values) ==
    LET n == IF Len(keys) < Len(values) THEN Len(keys) ELSE Len(values)
    IN  [k \in {FirstToken(keys[i]) : i \in 1..n} |->
            LET at == {i \in 1..n : FirstToken(keys[i]) = k}
            IN  values[CHOOSE i \in at : \A j \in at : j <= i]]

\* dict(zip(keys, values)): a later pair replaces an earlier one with the
\* same key.
DictZip(keys, values) ==
    LET n == IF Len(keys) < Len(values) THEN Len(keys) ELSE Len(values)
    IN  [k \in {keys[i] : i \in 1..n} |->
            LET at == {i \in 1..n : keys[i] = k}
            IN  values[CHOOSE i \in at : \A j \in at : j <= i]]

\* ---------------------------------------------- Taxonomy Reference Reader
\* The filter of InatPlantTaxa.__init__.
IsPlantGenus(row) == row.kingdom = "Plantae" /\ row.taxonRank = "genus"

\* family_to_genus after the loop body has run on one record.
FamilyToGenusAfter(f2g, row) ==
    IF IsPlantGenus(row) THEN AddTo(f2g, row.family, row.scientificName) ELSE f2g

\* genus_to_family after the loop body has run on one record.
GenusToFamilyAfter(g2f, row) ==
    IF IsPlantGenus(row) THEN Put(g2f, row.scientificName, row.family) ELSE g2f

\* ------------------------------------------------------- lookup methods
\* CalscapePlants.genuses
genuses == DOMAIN genus_to_species

\* CalscapePlants.species_for_genus
species_for_genus(genus) == GetSet(genus_to_species, genus)

\* InatPlantTaxa.genuses_for_family
genuses_for_family(family) == GetSet(family_to_genus, family)

\* Mutant of family_for_genus: a missing genus gets an empty family name
\* (dict.get with a default) instead of raising.
family_for_genus_default(genus) ==
    IF genus \in DOMAIN genus_to_family
    THEN [raised |-> FALSE, value |-> genus_to_family[genus]]
    ELSE [raised |-> FALSE, value |-> <<>>]

\* InatPlantTaxa.family_for_genus: the family, or the KeyError the
\* subscription raises.
family_for_genus(genus) ==
    IF genus \in DOMAIN genus_to_family
    THEN [raised |-> FALSE, value |-> genus_to_family[genus]]
    ELSE [raised |-> TRUE, value |-> [kind |-> "KeyError", key |-> genus]]

\* ------------------------------------------------------ Geophyte Selector
\* Mutant of add_genus: the set is assigned instead of updated.
add_genus_assign(G, genus) == species_for_genus(genus)

\* self.geophytes after add_genus(genus)
add_genus(G, genus) == G \cup species_for_genus(genus)

\* self.geophytes after add_genus on the first n names of a list, in order.
RECURSIVE AddGenusLoop(_, _, _)
AddGenusLoop(G, names, n) ==
    IF n = 0 THEN G ELSE add_genus(AddGenusLoop(G, names, n - 1), names[n])

\* Mutant of InCalscape: the genera are not restricted to the family.
InCalscapeUnfiltered(family) == genuses

\* in_calscape of add_family
InCalscape(family) == genuses \cap genuses_for_family(family)

\* Mutant of TreeInsert: the species set of the genus is replaced.
TreeInsertReplace(tree, family, genus, species) ==
    Put(tree, family,
        Put(IF family \in DOMAIN tree THEN tree[family] ELSE EmptyDict,
            genus, {species}))

\* self.family_tree[family][genus].add(species) on the nested defaultdict
TreeInsert(tree, family, genus, species) ==
    Put(tree, family,
        AddTo(IF family \in DOMAIN tree THEN tree[family] ELSE EmptyDict,
              genus, species))

\* The loop building self.family_tree over the species of S, every genus
\* of which has a family.
RECURSIVE BuildTree(_)
BuildTree(S) ==
    IF S = {} THEN EmptyDict
    ELSE LET species == CHOOSE x \in S : TRUE
             genus == FirstToken(species)
         IN  TreeInsert(BuildTree(S \ {species}),
                        family_for_genus(genus).value, genus, species)

\* ---------------------------------------------------------------- Reporter
RECURSIVE SumLen(_, _)
\* sum(len(x) for x in tree.values()), over the families F of tree
SumLen(tree, F) ==
    IF F = {} THEN 0
    ELSE LET f == CHOOSE x \in F : TRUE
         IN  Cardinality(DOMAIN tree[f]) + SumLen(tree, F \ {f})

\* The numbers print_summary prints.
Summary ==
    [num_geophytes |-> Cardinality(geophytes),
     num_no_cultivars |-> Cardinality({x \in geophytes : ~HasQuote(x)}),
     num_genera |-> SumLen(family_tree, DOMAIN family_tree),
     num_families |-> Cardinality(DOMAIN family_tree)]

\* Mutant of Skipped: the flag is ignored and nothing is skipped.
SkippedNever(name, exclude_cultivars) == FALSE

\* The test of write_csv that skips a species.
Skipped(name, exclude_cultivars) == exclude_cultivars /\ HasQuote(name)

RECURSIVE Flatten(_, _)
\* The concatenation of the first n sequences of ss.
Flatten(ss, n) == IF n = 0 THEN <<>> ELSE Flatten(ss, n - 1) \o ss[n]

\* Mutant of SpeciesOrder: the species set is iterated without sorting, here
\* in the order opposite to the sorted one.
SpeciesOrderUnsorted(family, genus) ==
    LET inorder == sorted(family_tree[family][genus])
    IN  [i \in 1..Len(inorder) |-> inorder[Len(inorder) + 1 - i]]

\* The species write_csv visits for one genus, in the order it visits them.
SpeciesOrder(family, genus) == sorted(family_tree[family][genus])

\* The genera write_csv visits for one family, in the order it visits them.
GenusOrder(family) == sorted(DOMAIN family_tree[family])

\* The families write_csv visits, in the order it visits them.
FamilyOrder == sorted(DOMAIN family_tree)

\* The <<family, genus, name>> triples write_csv appends a row for, in order.
Visited(exclude_cultivars) ==
    LET OfGenus(family, genus) ==
            LET species == SelectSeq(SpeciesOrder(family, genus),
                                     LAMBDA name : ~Skipped(name, exclude_cultivars))
            IN  [i \in 1..Len(species) |-> <<family, genus, species[i]>>]
        OfFamily(family) ==
            LET gs == GenusOrder(family)
            IN  Flatten([i \in 1..Len(gs) |-> OfGenus(family, gs[i])], Len(gs))
        fs == FamilyOrder
    IN  Flatten([i \in 1..Len(fs) |-> OfFamily(fs[i])], Len(fs))

\* The species whose common-name or URL lookup in write_csv raises KeyError.
MissingKeys(exclude_cultivars) ==
    {t[3] : t \in {Visited(exclude_cultivars)[i] :
                      i \in 1..Len(Visited(exclude_cultivars))}}
        \ (DOMAIN species_to_common_name \cap DOMAIN species_to_url)

\* The rows list of write_csv when every lookup succeeds.
Rows(exclude_cultivars) ==
    LET v == Visited(exclude_cultivars)
    IN  [i \in 1..Len(v) |->
            [family |-> v[i][1], genus |-> v[i][2], species |-> v[i][3],
             common_name |-> species_to_common_name[v[i][3]],
             url |-> species_to_url[v[i][3]]]]

\* list(rows[0].keys())
FieldNames == <<"family", "genus", "species", "common_name", "url">>

\* Mutant of WriteFile: the file is opened whatever rows holds.
WriteFileAlways(fs, path, rows) ==
    Put(fs, path, [header |-> FieldNames, rows |-> rows])

\* The files after lines 158-163 of write_csv: nothing is opened for an
\* empty rows list, else the file is created or truncated and written.
WriteFile(fs, path, rows) ==
    IF rows = <<>> THEN fs
    ELSE Put(fs, path, [header |-> FieldNames, rows |-> rows])

\* ----------------------------------------------------------------- __main__
\* After parser.parse_args(): nothing has been read or built.
Init ==
    /\ pc = "load_workbook"
    /\ args \in [exclude_cultivars : BOOLEAN, output_csv : {"", "geophytes.csv"}]
    /\ workbook = <<>>
    /\ genus_to_species = EmptyDict
    /\ species_to_url = EmptyDict
    /\ species_to_common_name = EmptyDict
    /\ family_to_genus = EmptyDict
    /\ genus_to_family = EmptyDict
    /\ rows_read = 0
    /\ geophytes = {}
    /\ applied = {}
    /\ call = 0
    /\ in_calscape = {}
    /\ family_tree = EmptyDict
    /\ bound = {}
    /\ stdout = <<>>
    /\ files = EmptyDict
    /\ error = <<>>

\* An uncaught exception ends the run.
Raise(exception) ==
    /\ pc' = "aborted"
    /\ error' = <<exception>>

\* openpyxl.load_workbook and workbook.active
LoadWorkbook ==
    /\ pc = "load_workbook"
    /\ \E header \in HeaderPool, rows \in SeqsUpTo(RowPool, MaxRows) :
          workbook' = <<[header |-> header, rows |-> rows]>>
    /\ pc' = "CalscapePlants"
    /\ UNCHANGED <<args, plants_vars, taxa_vars, selector_vars, bound,
                   output_vars, error>>

\* CalscapePlants.__init__ when a get_column call fails its assert: the
\* first failing check raises.
CalscapePlantsHeaderMismatch ==
    /\ pc = "CalscapePlants"
    /\ Mismatches(workbook[1]) # {}
    /\ LET sheet == workbook[1]
           first == CHOOSE i \in Mismatches(sheet) :
                        \A j \in Mismatches(sheet) : i <= j
       IN  Raise(HeaderError(sheet, HeaderChecks[first]))
    /\ workbook' = <<>>
    /\ UNCHANGED <<args, plants_vars, taxa_vars, selector_vars, bound,
                   output_vars>>

\* CalscapePlants.__init__ when the three header cells pass.
CalscapePlantsInit ==
    /\ pc = "CalscapePlants"
    /\ Mismatches(workbook[1]) = {}
    /\ LET sheet == workbook[1]
           species == get_column(sheet, "A")
           common_names == get_column(sheet, "B")
           urls == get_column(sheet, "AW")
       IN  /\ genus_to_species' = GenusToSpecies(species, Len(species))
           /\ species_to_url' = DictZip(species, urls)
           /\ species_to_common_name' = DictZip(species, common_names)
    /\ workbook' = <<>>
    /\ bound' = bound \cup {"calscape_plants"}
    /\ pc' = "InatPlantTaxa"
    /\ UNCHANGED <<args, taxa_vars, selector_vars, output_vars, error>>

\* One iteration of the loop over csv.DictReader(f).
ReadTaxaRow ==
    /\ pc = "InatPlantTaxa"
    /\ rows_read < MaxTaxa
    /\ \E row \in TaxaPool :
          /\ family_to_genus' = FamilyToGenusAfter(family_to_genus, row)
          /\ genus_to_family' = GenusToFamilyAfter(genus_to_family, row)
    /\ rows_read' = rows_read + 1
    /\ UNCHANGED <<pc, args, workbook, plants_vars, selector_vars, bound,
                   output_vars, error>>

\* The taxa file is exhausted and closed; lines 102-105 of the constructor
\* of CalscapeGeophytes start from the empty set.
TaxaEndOfFile ==
    /\ pc = "InatPlantTaxa"
    /\ rows_read' = 0
    /\ bound' = bound \cup {"inat_taxa"}
    /\ geophytes' = {}
    /\ pc' = "CalscapeGeophytes"
    /\ UNCHANGED <<args, workbook, plants_vars, family_to_genus,
                   genus_to_family, applied, call, in_calscape, family_tree,
                   output_vars, error>>

\* Constructor statement i, an add_genus call or a loop of them.
AddGenusStatement(i) ==
    /\ pc = "CalscapeGeophytes"
    /\ call = 0
    /\ Constructor[i].op = "add_genus"
    /\ geophytes' = AddGenusLoop(geophytes, Constructor[i].names,
                                 Len(Constructor[i].names))
    /\ applied' = applied \cup {i}
    /\ UNCHANGED <<pc, args, workbook, plants_vars, taxa_vars, call,
                   in_calscape, family_tree, bound, output_vars, error>>

\* Constructor statement i, an add_family call: line 121.
AddFamilyCall(i) ==
    /\ pc = "CalscapeGeophytes"
    /\ call = 0
    /\ Constructor[i].op = "add_family"
    /\ call' = i
    /\ in_calscape' = InCalscape(Constructor[i].names[1])
    /\ UNCHANGED <<pc, args, workbook, plants_vars, taxa_vars, geophytes,
                   applied, family_tree, bound, output_vars, error>>

\* One iteration of the loop of add_family; a set is iterated in no
\* particular order.
AddFamilyGenus ==
    /\ pc = "CalscapeGeophytes"
    /\ call # 0
    /\ \E genus \in in_calscape :
          /\ geophytes' = add_genus(geophytes, genus)
          /\ in_calscape' = in_calscape \ {genus}
    /\ UNCHANGED <<pc, args, workbook, plants_vars, taxa_vars, applied, call,
                   family_tree, bound, output_vars, error>>

\* add_family returns.
AddFamilyReturn ==
    /\ pc = "CalscapeGeophytes"
    /\ call # 0
    /\ in_calscape = {}
    /\ applied' = applied \cup {call}
    /\ call' = 0
    /\ UNCHANGED <<pc, args, workbook, plants_vars, taxa_vars, geophytes,
                   in_calscape, family_tree, bound, output_vars, error>>

\* The statement the constructor executes next: they run in source order.
NextStatement == Cardinality(applied) + 1

\* The geophyte species whose genus has no family: family_for_genus
\* raises KeyError for them.
Unresolved ==
    {species \in geophytes : family_for_genus(FirstToken(species)).raised}

\* Lines 114-118 when every lookup succeeds; the constructor returns.
BuildFamilyTree ==
    /\ pc = "CalscapeGeophytes"
    /\ call = 0
    /\ NextStatement > Len(Constructor)
    /\ Unresolved = {}
    /\ family_tree' = BuildTree(geophytes)
    /\ bound' = bound \cup {"geophytes"}
    /\ pc' = "print_summary"
    /\ UNCHANGED <<args, workbook, plants_vars, taxa_vars, geophytes, applied,
                   call, in_calscape, output_vars, error>>

\* Lines 114-118 when a lookup fails: the loop reaches such a species,
\* whichever the set yields first, and the exception leaves the constructor;
\* the object under construction is dropped.
BuildFamilyTreeKeyError ==
    /\ pc = "CalscapeGeophytes"
    /\ call = 0
    /\ NextStatement > Len(Constructor)
    /\ \E species \in Unresolved :
          Raise(family_for_genus(FirstToken(species)).value)
    /\ UNCHANGED <<args, workbook, plants_vars, taxa_vars, selector_vars,
                   bound, output_vars>>

\* geophytes.print_summary()
print_summary ==
    /\ pc = "print_summary"
    /\ stdout' = Append(stdout, Summary)
    /\ pc' = "write_csv"
    /\ UNCHANGED <<args, workbook, plants_vars, taxa_vars, selector_vars,
                   bound, files, error>>

\* if args.output_csv: false
NoOutput ==
    /\ pc = "write_csv"
    /\ args.output_csv = ""
    /\ pc' = "exit"
    /\ UNCHANGED <<args, workbook, plants_vars, taxa_vars, selector_vars,
                   bound, output_vars, error>>

\* geophytes.write_csv(args.output_csv, exclude_cultivars=...)
write_csv ==
    /\ pc = "write_csv"
    /\ args.output_csv # ""
    /\ IF MissingKeys(args.exclude_cultivars) # {}
       THEN /\ \E name \in MissingKeys(args.exclude_cultivars) :
                  Raise([kind |-> "KeyError", key |-> name])
            /\ UNCHANGED files
       ELSE /\ files' = WriteFile(files, args.output_csv,
                                  Rows(args.exclude_cultivars))
            /\ pc' = "exit"
            /\ UNCHANGED error
    /\ UNCHANGED <<args, workbook, plants_vars, taxa_vars, selector_vars,
                   bound, stdout>>

Next ==
    \/ LoadWorkbook
    \/ CalscapePlantsHeaderMismatch
    \/ CalscapePlantsInit
    \/ ReadTaxaRow
    \/ TaxaEndOfFile
    \/ \E i \in 1..Len(Constructor) : i = NextStatement /\ AddGenusStatement(i)
    \/ \E i \in 1..Len(Constructor) : i = NextStatement /\ AddFamilyCall(i)
    \/ AddFamilyGenus
    \/ AddFamilyReturn
    \/ BuildFamilyTree
    \/ BuildFamilyTreeKeyError
    \/ print_summary
    \/ NoOutput
    \/ write_csv

Spec == Init /\ [][Next]_vars

\* ------------------------------------------- the selector in any order
\* A run without command-line options.
InitAnyOrder ==
    /\ Init
    /\ args = [exclude_cultivars |-> FALSE, output_csv |-> ""]

\* The inputs are read as in __main__; the statements of the constructor
\* are then executed in any order, any number of times.
NextAnyOrder ==
    \/ LoadWorkbook
    \/ CalscapePlantsHeaderMismatch
    \/ CalscapePlantsInit
    \/ ReadTaxaRow
    \/ TaxaEndOfFile
    \/ \E i \in 1..Len(Constructor) : AddGenusStatement(i)
    \/ \E i \in 1..Len(Constructor) : AddFamilyCall(i)
    \/ AddFamilyGenus
    \/ AddFamilyReturn

SpecAnyOrder == InitAnyOrder /\ [][NextAnyOrder]_vars

\* ================================================================== claims
Range(q) == {q[i] : i \in 1..Len(q)}

\* The constructor of CalscapeGeophytes has returned to __main__.
Constructed == "geophytes" \in bound

\* An exception of the kind has ended the run.
Raised(kind) == error # <<>> /\ error[1].kind = kind

\* The species of the source table.
SourceSpecies == DOMAIN species_to_url

\* g is the text of s before its first space (all of s if it has none).
IsGenusOf(g, s) ==
    /\ Len(g) <= Len(s)
    /\ \A i \in 1..Len(g) : g[i] = s[i] /\ g[i] # " "
    /\ Len(g) < Len(s) => s[Len(g) + 1] = " "

\* The name carries the cultivar marker.
IsCultivar(s) == "'" \in Range(s)

\* The genera included by name and the families included whole.
ExplicitGenera ==
    Range(BRODIAE_SUBFAMILY_GENUSES) \cup Range(AGAVE_SUBFAMILY_GEOPHYTE_GENUSES)
        \cup {Allium}
WholeFamilies == {Liliaceae, Iridaceae, Tecophilaeaceae}

\* The source species satisfying at least one inclusion rule.
Included ==
    {s \in SourceSpecies :
        \E g \in DOMAIN genus_to_species :
            /\ IsGenusOf(g, s)
            /\ \/ g \in ExplicitGenera
               \/ \E f \in WholeFamilies :
                     f \in DOMAIN family_to_genus /\ g \in family_to_genus[f]}

\* The (family, genus) entries of the family tree.
TreeEntries ==
    UNION {{<<f, g>> : g \in DOMAIN family_tree[f]} : f \in DOMAIN family_tree}

\* The rows of the CSV file of this run, none if no file was written.
Written ==
    IF args.output_csv \in DOMAIN files THEN files[args.output_csv].rows ELSE <<>>

\* write_csv has been called and has returned.
CsvDone == pc = "exit" /\ args.output_csv # ""

\* C1: once the constructor has returned, the family tree partitions the
\* geophyte set: the union of the entries is the geophyte set, every geophyte
\* species is in exactly one (family, genus) entry, whose genus is the first
\* token of its name and whose family is the taxonomy's family of that genus,
\* and no entry is empty or holds a species outside the geophyte set.
C1_FamilyTreePartitions ==
    Constructed =>
        /\ UNION {family_tree[e[1]][e[2]] : e \in TreeEntries} = geophytes
        /\ \A s \in geophytes :
              Cardinality({e \in TreeEntries : s \in family_tree[e[1]][e[2]]}) = 1
        /\ \A e \in TreeEntries :
              /\ family_tree[e[1]][e[2]] # {}
              /\ family_tree[e[1]][e[2]] \subseteq geophytes
              /\ e[2] \in DOMAIN genus_to_family
              /\ genus_to_family[e[2]] = e[1]
              /\ \A s \in family_tree[e[1]][e[2]] : IsGenusOf(e[2], s)

\* A tree of two families, one genus of which holds two species.
C1_Witness ==
    /\ Constructed
    /\ Cardinality(DOMAIN family_tree) >= 2
    /\ \E e \in TreeEntries : Cardinality(family_tree[e[1]][e[2]]) >= 2

\* C2: when the constructor has executed its six statements, the geophyte
\* set is exactly the set of source species whose genus is an explicit genus
\* or is listed by the taxonomy under a whole-included family, whether or not
\* the taxonomy knows the explicit genera and whether or not the source has
\* them.
C2_GeophytesAreTheIncluded ==
    (applied = 1..Len(Constructor) /\ call = 0) => geophytes = Included

\* An explicit genus unknown to the taxonomy is included, a genus of a whole
\* family is included, another source species is not, and most explicit
\* genera are absent from the source.
C2_Witness ==
    /\ pc = "aborted"
    /\ Raised("KeyError")
    /\ Brodiaea_elegans \in geophytes
    /\ Brodiaea \notin DOMAIN genus_to_family
    /\ Lilium_pardalinum \in geophytes
    /\ Quercus_agrifolia \in SourceSpecies \ geophytes
    /\ Camassia \notin DOMAIN genus_to_species

\* One row precedes another: by family, then genus, then species.
RowLess(r1, r2) ==
    \/ StrLess(r1.family, r2.family)
    \/ /\ r1.family = r2.family
       /\ \/ StrLess(r1.genus, r2.genus)
          \/ r1.genus = r2.genus /\ StrLess(r1.species, r2.species)

\* C3: the rows write_csv produces are in ascending order of family, then
\* genus, then species, no row occurs twice, and without the exclude flag
\* there is exactly one row per geophyte species.
C3_RowsSorted ==
    CsvDone =>
        /\ \A i, j \in 1..Len(Written) : i < j => RowLess(Written[i], Written[j])
        /\ \A i, j \in 1..Len(Written) : i # j => Written[i] # Written[j]
        /\ ~args.exclude_cultivars =>
              /\ Len(Written) = Cardinality(geophytes)
              /\ {Written[i].species : i \in 1..Len(Written)} = geophytes

\* Three rows written: two species of one genus, and a second family.
C3_Witness ==
    /\ CsvDone
    /\ Len(Written) = 3
    /\ Written[1].genus = Written[2].genus
    /\ Written[2].family # Written[3].family

\* C4: with exclude_cultivars on, no written row is a cultivar, every other
\* geophyte species is written, and the number of geophyte species left out
\* is the difference of the two counts of the summary, which count the
\* cultivars in the total only.
C4_CultivarsExcluded ==
    (CsvDone /\ args.exclude_cultivars) =>
        LET species == {Written[i].species : i \in 1..Len(Written)}
        IN  /\ \A s \in species : ~IsCultivar(s)
            /\ species = {s \in geophytes : ~IsCultivar(s)}
            /\ stdout[1].num_geophytes = Cardinality(geophytes)
            /\ stdout[1].num_no_cultivars =
                  Cardinality({s \in geophytes : ~IsCultivar(s)})
            /\ Cardinality(geophytes \ species) =
                  stdout[1].num_geophytes - stdout[1].num_no_cultivars

\* A cultivar is left out of a file that holds another species.
C4_Witness ==
    /\ CsvDone
    /\ args.exclude_cultivars
    /\ Iris_Canyon_Snow \in geophytes
    /\ Len(Written) >= 1
    /\ stdout[1].num_geophytes = stdout[1].num_no_cultivars + 1

\* C5: no file is opened for an empty row set, though an output path was
\* given: not for an empty geophyte set and not for cultivars only with
\* exclude_cultivars on; the summary has been printed all the same.
C5_NoFileForNoRows ==
    /\ \A p \in DOMAIN files : files[p].rows # <<>>
    /\ (CsvDone /\ (geophytes = {}
                      \/ (args.exclude_cultivars /\ \A s \in geophytes : IsCultivar(s))))
          => (DOMAIN files = {} /\ Len(stdout) = 1)

\* Only cultivars were found and they are excluded: summary but no file.
C5_Witness ==
    /\ CsvDone
    /\ args.exclude_cultivars
    /\ geophytes = {Iris_Canyon_Snow}
    /\ DOMAIN files = {}
    /\ stdout # <<>>
    /\ stdout[1].num_geophytes = 1

\* C6: a geophyte species whose genus the taxonomy does not map to a family
\* is fatal: the run never gets past the constructor with such a species, and
\* the KeyError leaves no constructed object, no family tree, no summary and
\* no file.
C6_MissingFamilyIsFatal ==
    /\ (Constructed \/ pc \in {"print_summary", "write_csv", "exit"}
           \/ stdout # <<>> \/ DOMAIN files # {} \/ DOMAIN family_tree # {})
          => \A s \in geophytes :
                \E g \in DOMAIN genus_to_family : IsGenusOf(g, s)
    /\ (Raised("KeyError") /\ stdout = <<>>)
          => /\ pc = "aborted"
             /\ ~Constructed
             /\ DOMAIN family_tree = {}
             /\ DOMAIN files = {}
             /\ error[1].key \notin DOMAIN genus_to_family
             /\ \E s \in geophytes : IsGenusOf(error[1].key, s)

\* A species of an explicit genus the taxonomy lacks aborts the run, though
\* another geophyte species could be resolved.
C6_Witness ==
    /\ pc = "aborted"
    /\ Raised("KeyError")
    /\ error[1].key = Brodiaea
    /\ Lilium_pardalinum \in geophytes
    /\ Lilium \in DOMAIN genus_to_family

\* The rules of constructor statement i, as a set of source species.
StatementSpecies(i) ==
    {s \in SourceSpecies :
        \E g \in DOMAIN genus_to_species :
            /\ IsGenusOf(g, s)
            /\ IF Constructor[i].op = "add_genus"
               THEN g \in Range(Constructor[i].names)
               ELSE /\ Constructor[i].names[1] \in DOMAIN family_to_genus
                    /\ g \in family_to_genus[Constructor[i].names[1]]}

\* C7: with the constructor's statements executed in any order and any
\* number of times, and the genera of a family visited in any order, the
\* geophyte set is determined by the set of statements executed: it is the
\* union of what each adds, and once all have been executed it is the
\* set of included species.
C7_OrderIndependent ==
    pc = "CalscapeGeophytes" =>
        LET done == UNION {StatementSpecies(i) : i \in applied}
        IN  /\ done \subseteq geophytes
            /\ call = 0 => geophytes = done
            /\ call # 0 => geophytes \subseteq done \cup StatementSpecies(call)
            /\ (call = 0 /\ applied = 1..Len(Constructor)) => geophytes = Included

\* Statements executed out of source order, with a species that both the
\* Liliaceae rule and the Brodiaea rule add.
C7_Witness ==
    /\ pc = "CalscapeGeophytes"
    /\ call = 0
    /\ applied = {1, 2, 6}
    /\ Brodiaea_elegans \in StatementSpecies(1) \cap StatementSpecies(2)
    /\ Brodiaea_elegans \in geophytes

\* The header texts CalscapePlants expects in row 6.
ExpectedHeader ==
    [A |-> "Botanical Name", B |-> "Common Name", AW |-> "Plant Url"]

\* An AssertionError names a header cell, its expected text and another
\* actual text, and nothing has been built, read, printed or written.
C8_Aborted ==
    Raised("AssertionError") =>
        /\ pc = "aborted"
        /\ error[1].cell[2] = 6
        /\ error[1].expected = ExpectedHeader[error[1].cell[1]]
        /\ error[1].got # error[1].expected
        /\ bound = {}
        /\ DOMAIN genus_to_species = {}
        /\ DOMAIN species_to_url = {}
        /\ DOMAIN species_to_common_name = {}
        /\ DOMAIN family_to_genus = {}
        /\ DOMAIN genus_to_family = {}
        /\ rows_read = 0
        /\ geophytes = {}
        /\ stdout = <<>>
        /\ DOMAIN files = {}

\* CalscapePlants.__init__ raises exactly when a header cell differs.
C8_Step ==
    pc = "CalscapePlants" =>
        LET header == workbook[1].header
            bad == {c \in {"A", "B", "AW"} : header[c] # ExpectedHeader[c]}
        IN  IF bad = {}
            THEN error' = <<>> /\ pc' = "InatPlantTaxa"
            ELSE /\ pc' = "aborted"
                 /\ error' # <<>>
                 /\ error'[1].kind = "AssertionError"
                 /\ error'[1].cell[1] \in bad
                 /\ error'[1].got = header[error'[1].cell[1]]

\* C8: a header cell of row 6 that differs from its expected text makes
\* CalscapePlants fail with an AssertionError naming the expected and the
\* actual text, before anything is built, read, printed or written; three
\* matching cells raise no such error.
C8_HeaderMismatchIsFatal == []C8_Aborted /\ [][C8_Step]_vars

\* The third header check fails after the first two passed.
C8_Witness ==
    /\ pc = "aborted"
    /\ Raised("AssertionError")
    /\ error[1].cell = <<"AW", 6>>
    /\ error[1].got = "Plant URL"

\* C9: the two taxonomy indexes agree with each other, a genus being in
\* the set of a family exactly when that family is its family, also for a
\* genus repeated under several families; hence a species a whole-family
\* rule adds is grouped under that family.
C9_IndexesAgree ==
    /\ \A f \in DOMAIN family_to_genus :
          \A g \in family_to_genus[f] :
              g \in DOMAIN genus_to_family /\ genus_to_family[g] = f
    /\ \A g \in DOMAIN genus_to_family :
          /\ genus_to_family[g] \in DOMAIN family_to_genus
          /\ g \in family_to_genus[genus_to_family[g]]
    /\ Constructed =>
          \A f \in WholeFamilies \cap DOMAIN family_to_genus :
              \A s \in geophytes :
                  (\E g \in family_to_genus[f] : IsGenusOf(g, s))
                      => \E e \in TreeEntries :
                            e[1] = f /\ s \in family_tree[e[1]][e[2]]

\* The species tables hold the geophytes and the written rows carry their
\* entries; only the constructor ever raises KeyError.
C10_Lookups ==
    /\ geophytes \subseteq DOMAIN species_to_url \cap DOMAIN species_to_common_name
    /\ \A e \in TreeEntries :
          family_tree[e[1]][e[2]]
              \subseteq DOMAIN species_to_url \cap DOMAIN species_to_common_name
    /\ Raised("KeyError") => stdout = <<>>
    /\ \A p \in DOMAIN files :
          \A i \in 1..Len(files[p].rows) :
              LET row == files[p].rows[i]
              IN  /\ row.species \in geophytes
                  /\ row.common_name = species_to_common_name[row.species]
                  /\ row.url = species_to_url[row.species]

\* The entries of the species tables are those of source rows.
C10_Step ==
    (pc = "CalscapePlants" /\ pc' = "InatPlantTaxa") =>
        LET rows == workbook[1].rows
        IN  /\ DOMAIN species_to_url' = {rows[i].A : i \in 1..Len(rows)}
            /\ DOMAIN species_to_common_name' = {rows[i].A : i \in 1..Len(rows)}
            /\ \A s \in DOMAIN species_to_url' :
                  \E i \in 1..Len(rows) :
                      /\ rows[i].A = s
                      /\ rows[i].B = species_to_common_name'[s]
                      /\ rows[i].AW = species_to_url'[s]

\* C10: every geophyte species, hence every species of the family tree, is a
\* key of both species tables, so the lookups of write_csv raise no KeyError,
\* and each written row carries the common name and URL of a source row of
\* its species.
C10_LookupsCannotFail == []C10_Lookups /\ [][C10_Step]_vars

\* A file whose rows include a species the source listed twice.
C10_Witness ==
    /\ CsvDone
    /\ Len(Written) >= 2
    /\ \E i \in 1..Len(Written) :
          /\ Written[i].species = Iris_douglasiana
          /\ Written[i].common_name = "Mountain Iris"
          /\ Written[i].url = "url/iris-douglasiana-2"

====
